---- MODULE Spec2Model ----
(***************************************************************************)
(* Model of binexplore: the byte-statistics functions of binstats.py and   *)
(* the block-wise / autocorrelation computations of binplots.py.           *)
(*                                                                         *)
(* A numpy uint8 array of one dimension is a TLA+ sequence of 0..255;      *)
(* Python index k (0-based) is TLA+ index k+1.  Every function of the      *)
(* library is an operator computed the way the code computes it, and one   *)
(* action per function applies it to the inputs and records the result.    *)
(***************************************************************************)
EXTENDS Integers, Sequences, FiniteSets, TLC

VARIABLES a, b, bs, pc, out

vars == <<a, b, bs, pc, out>>

\* ------------------------------------------------------------------ bounds
\* longest input array
MaxLen == 5
\* largest explicit block size passed as the bs keyword
MaxBs == 3

\* byte values the first argument is built from
ByteVals == {0, 1, 255}
\* byte values the second argument (mask, other array) is built from
MaskVals == {1, 255}

\* ------------------------------------------------------- program constants
\* number of byte values, the size of the count table
NumBytes == 256
\* smallest default block size of byte_freq_progression and entropy
MinBlockSize == 512
\* default divisor of the array size in byte_freq_progression
FreqBlockDiv == 256
\* default divisor of the array size in entropy
EntropyBlockDiv == 1024

\* marker of a keyword argument that was not passed
NoBs == 0

\* ---------------------------------------------------------------- helpers
SeqsUpTo(S, n) == UNION {[1..k -> S] : k \in 0..n}

Min(x, y) == IF x < y THEN x ELSE y
Max(x, y) == IF x > y THEN x ELSE y

\* numpy.bitwise_xor of two uint8 scalars
RECURSIVE BitXor(_, _)
BitXor(x, y) ==
    IF x = 0 /\ y = 0 THEN 0
    ELSE (((x % 2) + (y % 2)) % 2) + 2 * BitXor(x \div 2, y \div 2)

\* 2 to the power k
RECURSIVE Pow2(_)
Pow2(k) == IF k = 0 THEN 1 ELSE 2 * Pow2(k - 1)

\* a slice bound of Python, negative values counted from the end, clamped
SliceBound(n, k) == IF k < 0 THEN Max(n + k, 0) ELSE Min(k, n)

\* s[lo:hi] of Python (0-based, hi exclusive)
PySlice(s, lo, hi) ==
    LET n == Len(s)
        l == SliceBound(n, lo)
        h == SliceBound(n, hi)
    IN  IF h <= l THEN <<>> ELSE [k \in 1..(h - l) |-> s[l + k]]

\* numpy broadcasting of two 1-D shapes: can x and y be combined
Broadcastable(x, y) == Len(x) = Len(y) \/ Len(x) = 1 \/ Len(y) = 1

\* length of the broadcast of two 1-D shapes
BroadcastLen(x, y) == IF Len(x) = 1 THEN Len(y) ELSE Len(x)

\* numpy.bitwise_xor of two 1-D uint8 arrays that broadcast
bitwise_xor(x, y) ==
    [k \in 1..BroadcastLen(x, y) |->
        BitXor(IF Len(x) = 1 THEN x[1] ELSE x[k],
               IF Len(y) = 1 THEN y[1] ELSE y[k])]

\* numpy.count_nonzero of a 1-D array
count_nonzero(x) == Cardinality({k \in 1..Len(x) : x[k] # 0})

\* result[s:e] = v, for a slice inside the array and v of the slice's length
SliceAssign(s, lo, v) ==
    [k \in 1..Len(s) |->
        IF k > lo /\ k <= lo + Len(v) THEN v[k - lo] ELSE s[k]]

\* -------------------------------------------------------- repeating_xor
\* the full-block loop: "for i in range(result.size//mask.size)"
RECURSIVE XorFullBlocks(_, _, _, _)
XorFullBlocks(result, mask, i, n) ==
    IF i >= n THEN result
    ELSE LET s == i * Len(mask)
             e == (i + 1) * Len(mask)
         IN  XorFullBlocks(
                 SliceAssign(result, s,
                             bitwise_xor(PySlice(result, s, e), mask)),
                 mask, i + 1, n)

\* the remainder step: "if remain != 0: result[-remain:] = ..."
\* variant: the remainder is computed from the head of the array
XorRemainder_reads_head(result, mask) ==
    LET remain == Len(result) % Len(mask)
    IN  IF remain # 0
        THEN SliceAssign(result, Len(result) - remain,
                 bitwise_xor(PySlice(result, 0, remain),
                             PySlice(mask, 0, remain)))
        ELSE result
\* variant: the remainder uses the last mask bytes, mask[-remain:]
XorRemainder_mask_tail(result, mask) ==
    LET remain == Len(result) % Len(mask)
    IN  IF remain # 0
        THEN SliceAssign(result, Len(result) - remain,
                 bitwise_xor(PySlice(result, 0 - remain, Len(result)),
                             PySlice(mask, 0 - remain, Len(mask))))
        ELSE result
\* the code: result[-remain:] ^ mask[:remain]
XorRemainder(result, mask) ==
    LET remain == Len(result) % Len(mask)
    IN  IF remain # 0
        THEN SliceAssign(result, Len(result) - remain,
                 bitwise_xor(PySlice(result, 0 - remain, Len(result)),
                             PySlice(mask, 0, remain)))
        ELSE result

\* repeating_xor(src, mask) for a mask of at least one byte
repeating_xor(src, mask) ==
    XorRemainder(XorFullBlocks(src, mask, 0, Len(src) \div Len(mask)), mask)

\* ----------------------------------------------------------- byte_count
\* range(n) of Python as a set
PyRange(n) == 0..(n - 1)

\* byte_count(a): the table numpy.zeros((256)) after
\* "for i in range(256): count[i] = numpy.count_nonzero(a == i)"
\* variant: the loop stops one value early, range(255)
byte_count_range_255(x) ==
    [v \in 0..(NumBytes - 1) |->
        IF v \in PyRange(NumBytes - 1)
        THEN Cardinality({k \in 1..Len(x) : x[k] = v})
        ELSE 0]
\* the code: range(256)
byte_count(x) ==
    [v \in 0..(NumBytes - 1) |->
        IF v \in PyRange(NumBytes)
        THEN Cardinality({k \in 1..Len(x) : x[k] = v})
        ELSE 0]

\* sum of the entries lo..hi-1 of a table, by halves
RECURSIVE RangeSum(_, _, _)
RangeSum(count, lo, hi) ==
    IF hi <= lo THEN 0
    ELSE IF hi = lo + 1 THEN count[lo]
    ELSE LET mid == (lo + hi) \div 2
         IN  RangeSum(count, lo, mid) + RangeSum(count, mid, hi)

\* count.sum(axis=None) of a table indexed 0..n-1
TableSum(count, n) == RangeSum(count, 0, n)

\* byte_count(a, frac=True): 1.0*count/count.sum(), kept as the numerators
\* and the common denominator; 0/0 is the NaN numpy produces
byte_count_frac(x) ==
    LET count == byte_count(x)
        total == TableSum(count, NumBytes)
    IN  [num |-> count, den |-> total, nan |-> (total = 0)]

\* binstats.entropy(a): h is the sum of -p*log2(p) over the values whose
\* count is not zero, p = count/a.size; kept as the counts that enter the
\* sum and the divisor.  No division happens when every count is zero.
binstats_entropy(x) ==
    LET count == [v \in 0..(NumBytes - 1) |->
                     Cardinality({k \in 1..Len(x) : x[k] = v})]
        used == {v \in 0..(NumBytes - 1) : count[v] # 0}
    IN  [terms |-> [v \in used |-> count[v]], size |-> Len(x),
         nan |-> FALSE]

\* ------------------------------------------------------ diff_bit, diff_byte
\* numpy.unpackbits of a 1-D uint8 array: 8 bits per byte, high bit first
unpackbits(x) ==
    [k \in 1..(8 * Len(x)) |->
        (x[((k - 1) \div 8) + 1] \div Pow2(7 - ((k - 1) % 8))) % 2]

\* diff_bit(a, b); numpy raises ValueError when the shapes do not broadcast
diff_bit(x, y) ==
    IF Broadcastable(x, y)
    THEN [kind |-> "count",
          val |-> count_nonzero(unpackbits(bitwise_xor(x, y)))]
    ELSE [kind |-> "error", error |-> "ValueError"]

\* diff_byte(a, b)
diff_byte(x, y) ==
    IF Broadcastable(x, y)
    THEN [kind |-> "count", val |-> count_nonzero(bitwise_xor(x, y))]
    ELSE [kind |-> "error", error |-> "ValueError"]

\* ------------------------------------------- digraph_count, trigraph_count
\* The tables numpy.zeros((256, 256)) and numpy.zeros((256, 256, 256)) are
\* kept sparse: a cell outside the domain holds the zero it was created with.
EmptyTable == [key \in {} |-> 0]

Cell(table, key) == IF key \in DOMAIN table THEN table[key] ELSE 0

\* "result[key] += 1"
Increment(table, key) ==
    [k \in (DOMAIN table) \cup {key} |->
        IF k = key THEN Cell(table, key) + 1 ELSE table[k]]

\* result.sum(axis=None)
RECURSIVE TableTotal(_)
TableTotal(table) ==
    IF DOMAIN table = {} THEN 0
    ELSE LET key == CHOOSE k \in DOMAIN table : TRUE
         IN  table[key]
             + TableTotal([k \in (DOMAIN table) \ {key} |-> table[k]])

\* does a[k] raise IndexError (a negative k counts from the end)
OutOfRange(x, k) == k >= Len(x) \/ k < 0 - Len(x)

\* a[k] for an index in range
At(x, k) == IF k < 0 THEN x[Len(x) + k + 1] ELSE x[k + 1]

\* the sliding-window loop of width w: "for i in range(n)" with
\* "result[a[i], ..., a[i+w-1]] += 1"; st holds the table, the indices
\* read so far and whether a read raised IndexError
RECURSIVE NGramLoop(_, _, _, _, _)
NGramLoop(x, w, st, i, n) ==
    IF i >= n \/ st.error THEN st
    ELSE LET idx == {i + d : d \in 0..(w - 1)}
             bad == \E k \in idx : OutOfRange(x, k)
         IN  NGramLoop(x, w,
                 [table |-> IF bad THEN st.table
                            ELSE Increment(st.table,
                                     [d \in 1..w |-> At(x, i + d - 1)]),
                  reads |-> st.reads \cup idx,
                  error |-> bad],
                 i + 1, n)

NGramStart == [table |-> EmptyTable, reads |-> {}, error |-> FALSE]

\* digraph_count(a): "for i in range(a.size-1)"
\* variant: range(a.size)
digraph_count_range_size(x) ==
    NGramLoop(x, 2, NGramStart, 0, Len(x))
\* the code
digraph_count(x) ==
    NGramLoop(x, 2, NGramStart, 0, Len(x) - 1)

\* trigraph_count(a): "for i in range(a.size-2)"
trigraph_count(x) ==
    NGramLoop(x, 3, NGramStart, 0, Len(x) - 2)

\* -------------------------------------------------------- autocorrelation
\* numpy.arange(n, 0, -1): n, n-1, ..., 1
\* variant: n-1, ..., 0
arange_from_below(n) == [k \in 1..n |-> n - k]
\* the code
arange_down(n) == [k \in 1..n |-> n - (k - 1)]

\* "for i in range(1, a.size-1): autocorr[i] -= count_nonzero(
\*      bitwise_xor(a[:-i], a[i:]))"
RECURSIVE AutocorrLoop(_, _, _, _)
AutocorrLoop(x, autocorr, i, n) ==
    IF i >= n THEN autocorr
    ELSE AutocorrLoop(x,
             [autocorr EXCEPT ![i + 1] =
                 @ - count_nonzero(bitwise_xor(PySlice(x, 0, 0 - i),
                                               PySlice(x, i, Len(x))))],
             i + 1, n)

\* autocorrelation(a, mode='direct'): the series that is plotted
\* variant: the loop starts at shift 2
autocorr_skip_first(x) ==
    AutocorrLoop(x, arange_down(Len(x)), 2, Len(x) - 1)
\* the code: shifts 1..a.size-2
autocorr_direct(x) ==
    AutocorrLoop(x, arange_down(Len(x)), 1, Len(x) - 1)

\* number of coefficients numpy.fft.rfft returns for n real samples
rfft_size(n) == (n \div 2) + 1

\* number of samples numpy.fft.irfft returns for m coefficients when no
\* output length is passed
irfft_size(m) == 2 * (m - 1)

\* autocorrelation(a, mode='fft'): irfft(rfft*rfft.conj()).  The values are
\* floating point and are not modelled; the length of the series is.  Both
\* transforms raise ValueError for a length below one.
autocorr_fft(x) ==
    IF Len(x) < 1 \/ irfft_size(rfft_size(Len(x))) < 1
    THEN [kind |-> "error", error |-> "ValueError"]
    ELSE [kind |-> "series_fft", size |-> irfft_size(rfft_size(Len(x)))]

\* ----------------------------------------------------- block-wise callers
\* the block size: the bs keyword when passed, else a.size//div but not
\* below 0x200
BlockSize(n, bsArg, div) ==
    IF bsArg # NoBs THEN bsArg
    ELSE IF n \div div < MinBlockSize THEN MinBlockSize ELSE n \div div

\* "blocks = a.size//bs + (0 if a.size % bs == 0 else 1)"
\* variant: one more block whatever the remainder
NumBlocks_always_extra(n, size) == (n \div size) + 1
\* the code
NumBlocks(n, size) == (n \div size) + (IF n % size = 0 THEN 0 ELSE 1)

\* the arguments of the per-block calls: a.flatten()[i*bs:(i+1)*bs]
BlockCalls(x, size) ==
    [k \in 1..NumBlocks(Len(x), size) |->
        PySlice(x, (k - 1) * size, k * size)]

\* byte_freq_progression(a, bs=...): the rows of bf
byte_freq_progression(x, bsArg) ==
    LET size == BlockSize(Len(x), bsArg, FreqBlockDiv)
        calls == BlockCalls(x, size)
    IN  [kind |-> "blocks", bs |-> size, calls |-> calls,
         val |-> [k \in 1..Len(calls) |-> byte_count_frac(calls[k])]]

\* binplots.entropy(a, bs=...): the entries of the entropy array
binplots_entropy(x, bsArg) ==
    LET size == BlockSize(Len(x), bsArg, EntropyBlockDiv)
        calls == BlockCalls(x, size)
    IN  [kind |-> "blocks", bs |-> size, calls |-> calls,
         val |-> [k \in 1..Len(calls) |-> binstats_entropy(calls[k])]]

\* ------------------------------------------------------------------ state
\* a is the first argument after _cast_uint8_ndarray: bytes in 0..255
Init ==
    /\ a \in SeqsUpTo(ByteVals, MaxLen)
    /\ b = <<>>
    /\ bs = NoBs
    /\ pc = "idle"
    /\ out = [kind |-> "none"]

\* repeating_xor(a, mask); an empty mask divides by zero
RepeatingXor ==
    /\ pc = "idle"
    /\ \E mask \in SeqsUpTo(MaskVals, MaxLen) :
        /\ b' = mask
        /\ IF Len(mask) = 0
           THEN out' = [kind |-> "error", error |-> "ZeroDivisionError"]
           ELSE out' = [kind |-> "bytes", val |-> repeating_xor(a, mask)]
    /\ pc' = "repeating_xor"
    /\ UNCHANGED <<a, bs>>

\* repeating_xor applied to the result of repeating_xor, with the same mask
RepeatingXorAgain ==
    /\ pc = "repeating_xor"
    /\ out.kind = "bytes"
    /\ out' = [kind |-> "bytes", val |-> repeating_xor(out.val, b)]
    /\ pc' = "repeating_xor_twice"
    /\ UNCHANGED <<a, b, bs>>

ByteCount ==
    /\ pc = "idle"
    /\ out' = [kind |-> "table", val |-> byte_count(a)]
    /\ pc' = "byte_count"
    /\ UNCHANGED <<a, b, bs>>

DiffBit ==
    /\ pc = "idle"
    /\ \E other \in SeqsUpTo(MaskVals, MaxLen) :
        /\ b' = other
        /\ out' = diff_bit(a, other)
    /\ pc' = "diff_bit"
    /\ UNCHANGED <<a, bs>>

DiffByte ==
    /\ pc = "idle"
    /\ \E other \in SeqsUpTo(MaskVals, MaxLen) :
        /\ b' = other
        /\ out' = diff_byte(a, other)
    /\ pc' = "diff_byte"
    /\ UNCHANGED <<a, bs>>

DigraphCount ==
    /\ pc = "idle"
    /\ out' = [kind |-> "ngram"] @@ digraph_count(a)
    /\ pc' = "digraph_count"
    /\ UNCHANGED <<a, b, bs>>

TrigraphCount ==
    /\ pc = "idle"
    /\ out' = [kind |-> "ngram"] @@ trigraph_count(a)
    /\ pc' = "trigraph_count"
    /\ UNCHANGED <<a, b, bs>>

AutocorrelationDirect ==
    /\ pc = "idle"
    /\ out' = [kind |-> "series", val |-> autocorr_direct(a)]
    /\ pc' = "autocorr_direct"
    /\ UNCHANGED <<a, b, bs>>

AutocorrelationFft ==
    /\ pc = "idle"
    /\ out' = autocorr_fft(a)
    /\ pc' = "autocorr_fft"
    /\ UNCHANGED <<a, b, bs>>

ByteFreqProgression ==
    /\ pc = "idle"
    /\ \E arg \in (1..MaxBs) \cup {NoBs} :
        /\ bs' = arg
        /\ out' = byte_freq_progression(a, arg)
    /\ pc' = "byte_freq_progression"
    /\ UNCHANGED <<a, b>>

Entropy ==
    /\ pc = "idle"
    /\ \E arg \in (1..MaxBs) \cup {NoBs} :
        /\ bs' = arg
        /\ out' = binplots_entropy(a, arg)
    /\ pc' = "entropy"
    /\ UNCHANGED <<a, b>>

\* the caller takes the result; the next call starts from the same input
Return ==
    /\ pc # "idle"
    /\ pc' = "idle"
    /\ b' = <<>>
    /\ bs' = NoBs
    /\ out' = [kind |-> "none"]
    /\ UNCHANGED a

Next ==
    \/ RepeatingXor
    \/ RepeatingXorAgain
    \/ ByteCount
    \/ DiffBit
    \/ DiffByte
    \/ DigraphCount
    \/ TrigraphCount
    \/ AutocorrelationDirect
    \/ AutocorrelationFft
    \/ ByteFreqProgression
    \/ Entropy
    \/ Return

Spec == Init /\ [][Next]_vars


\* ----------------------------------------------------------------- claims
\* number of positions j in 0..N-s-1 where seq[j] differs from seq[j+s]
Mismatches(x, s) ==
    Cardinality({j \in 0..(Len(x) - s - 1) : x[j + 1] # x[j + s + 1]})

\* x is a pattern of length P tiled k >= 2 times
IsTiled(x, P) ==
    /\ Len(x) % P = 0
    /\ Len(x) \div P >= 2
    /\ \A i \in 1..Len(x) : x[i] = x[((i - 1) % P) + 1]

\* the blocks of a sequence of calls, joined in order
RECURSIVE Joined(_)
Joined(calls) ==
    IF calls = <<>> THEN <<>> ELSE Head(calls) \o Joined(Tail(calls))

\* number of values of an autocorrelation result, -1 for an error
SeriesSize(o) ==
    IF o.kind = "series" THEN Len(o.val)
    ELSE IF o.kind = "series_fft" THEN o.size
    ELSE 0 - 1

\* C1: applying repeating_xor twice with the same mask of length >= 1 gives
\* back src, element for element and with the same length.
C1_RoundTrip ==
    pc = "repeating_xor_twice" => (out.kind = "bytes" /\ out.val = a)

C1_Witness ==
    /\ pc = "repeating_xor_twice"
    /\ Len(b) >= 2
    /\ Len(a) > Len(b)
    /\ Len(a) % Len(b) # 0
    /\ out.val = a

\* C2: the result of repeating_xor has the length of src and
\* result[i] = src[i] XOR mask[i mod M] for every i, also when M > N.
C2_XorTiles ==
    (pc = "repeating_xor" /\ Len(b) >= 1) =>
        /\ out.kind = "bytes"
        /\ Len(out.val) = Len(a)
        /\ \A i \in 0..(Len(a) - 1) :
              out.val[i + 1] = BitXor(a[i + 1], b[(i % Len(b)) + 1])
        /\ b = <<255>> =>
              \A i \in 0..(Len(a) - 1) : out.val[i + 1] = 255 - a[i + 1]

C2_Witness ==
    /\ pc = "repeating_xor"
    /\ Len(b) = 2
    /\ b[1] # b[2]
    /\ Len(a) >= 5
    /\ Len(a) % 2 = 1
    /\ out.val[Len(a)] = BitXor(a[Len(a)], b[1])
    /\ out.val[Len(a)] # BitXor(a[Len(a)], b[2])

\* C3: diff_bit and diff_byte fail with a size-mismatch error whenever the
\* two lengths differ, and return a count only when they are equal.
C3_DiffSizeMismatch ==
    pc \in {"diff_bit", "diff_byte"} =>
        (out.kind = "error" <=> Len(a) # Len(b))

\* C4: in direct mode autocorr[s] = (N - s) - (number of positions where
\* seq[j] differs from seq[j+s]) for every shift s in 0..N-1.
C4_DirectEveryShift ==
    pc = "autocorr_direct" =>
        \A s \in 0..(Len(a) - 1) :
            out.val[s + 1] = (Len(a) - s) - Mismatches(a, s)

\* C5: for N >= 1 the autocorrelation series has exactly N values in direct
\* mode and in FFT mode, for even and odd N.
C5_SeriesHasNValues ==
    (pc \in {"autocorr_direct", "autocorr_fft"} /\ Len(a) >= 1) =>
        SeriesSize(out) = Len(a)

\* C6: byte_count returns 256 entries, entry v is the number of indices i
\* with seq[i] = v, and the entries sum to the length of the sequence.
C6_ByteCountTable ==
    pc = "byte_count" =>
        /\ DOMAIN out.val = 0..255
        /\ \A v \in 0..255 :
              out.val[v] = Cardinality({i \in 1..Len(a) : a[i] = v})
        /\ TableSum(out.val, 256) = Len(a)

C6_Witness ==
    /\ pc = "byte_count"
    /\ Len(a) >= 3
    /\ out.val[0] >= 2
    /\ out.val[255] >= 1

\* C7: the entries of digraph_count sum to max(N-1, 0) and those of
\* trigraph_count to max(N-2, 0); for N < 2 (N < 3) the table is all zero
\* and no element outside the sequence is read.
C7_NGramTotals ==
    /\ pc = "digraph_count" =>
          /\ ~out.error
          /\ TableTotal(out.table) = Max(Len(a) - 1, 0)
          /\ out.reads \subseteq 0..(Len(a) - 1)
          /\ Len(a) < 2 => DOMAIN out.table = {}
    /\ pc = "trigraph_count" =>
          /\ ~out.error
          /\ TableTotal(out.table) = Max(Len(a) - 2, 0)
          /\ out.reads \subseteq 0..(Len(a) - 1)
          /\ Len(a) < 3 => DOMAIN out.table = {}

C7_Witness ==
    /\ pc = "trigraph_count"
    /\ Len(a) >= 4
    /\ Cardinality(DOMAIN out.table) >= 2
    /\ \E key \in DOMAIN out.table : out.table[key] >= 2

\* C8 as stated: for a pattern of length P tiled k >= 2 times, the direct
\* autocorrelation at every shift m*P with 0 < m*P < N is not smaller than
\* at the shifts m*P - 1 and m*P + 1 (where that index exists).
C8_PeriodicLocalMax ==
    pc = "autocorr_direct" =>
        \A P \in 1..Len(a) : IsTiled(a, P) =>
            \A m \in 1..Len(a) : (m * P < Len(a)) =>
                /\ out.val[m * P + 1] >= out.val[m * P]
                /\ (m * P + 1 <= Len(a) - 1) =>
                      out.val[m * P + 1] >= out.val[m * P + 2]

\* C8 amended: for a pattern of length P tiled k >= 2 times and every shift
\* m*P with 0 < m*P < N, autocorr[m*P] = N - m*P, it is not smaller than
\* autocorr[m*P + 1] where that index exists, and it is not smaller than
\* autocorr[m*P - 1] exactly when seq[j] differs from seq[j + m*P - 1] at
\* one position j at least.
C8_PeriodicPeak ==
    pc = "autocorr_direct" =>
        \A P \in 1..Len(a) : IsTiled(a, P) =>
            \A m \in 1..Len(a) : (m * P < Len(a)) =>
                /\ out.val[m * P + 1] = Len(a) - m * P
                /\ (m * P + 1 <= Len(a) - 1) =>
                      out.val[m * P + 1] >= out.val[m * P + 2]
                /\ (out.val[m * P + 1] >= out.val[m * P])
                      <=> (Mismatches(a, m * P - 1) >= 1)

C8_Witness ==
    /\ pc = "autocorr_direct"
    /\ IsTiled(a, 2)
    /\ a[1] # a[2]
    /\ out.val[3] >= out.val[2]
    /\ out.val[3] >= out.val[4]

\* C9: for a non-empty sequence the direct autocorrelation at shift 0 is N.
C9_ShiftZero ==
    (pc = "autocorr_direct" /\ Len(a) >= 1) => out.val[1] = Len(a)

C9_Witness ==
    /\ pc = "autocorr_direct"
    /\ Len(a) >= 3
    /\ a[1] # a[2]
    /\ out.val[1] = Len(a)
    /\ out.val[2] < Len(a) - 1

\* C10: byte_freq_progression and entropy make ceil(N / bs) per-block calls,
\* call i gets the slice [i*bs, min((i+1)*bs, N)), the blocks in order are
\* the input, and no call gets an empty block.
C10_BlockLoop ==
    pc \in {"byte_freq_progression", "entropy"} =>
        LET n == Len(a)
            size == out.bs
            calls == out.calls
        IN  /\ size >= 1
            /\ bs # NoBs => size = bs
            /\ Len(calls) = (n + size - 1) \div size
            /\ Len(out.val) = Len(calls)
            /\ \A i \in 0..(Len(calls) - 1) :
                  calls[i + 1] =
                      [k \in 1..(Min((i + 1) * size, n) - i * size) |->
                          a[i * size + k]]
            /\ Joined(calls) = a
            /\ \A k \in 1..Len(calls) :
                  /\ calls[k] # <<>>
                  /\ ~out.val[k].nan

C10_Witness ==
    /\ pc = "entropy"
    /\ out.bs = 2
    /\ Len(out.calls) = 3
    /\ Len(out.calls[3]) = 1
    /\ out.val[3].size = 1

====
